---- MODULE Spec2Model ----
(***************************************************************************)
(* State-machine model of the airline reservation ledger and its pages:    *)
(*   src/mock_flight_data.py    generate_mock_flights                      *)
(*   src/airline_reservation.py search_flights, store_mock_flights,        *)
(*                              book_ticket, cancel_reservation,           *)
(*                              cancel_booking, get_user_bookings,         *)
(*                              create_tables, authenticate,               *)
(*                              register_user, main, login_page,           *)
(*                              registration_page, booking_page,           *)
(*                              flight_booking_form_page, my_bookings_page *)
(* Strings built by f-strings are modelled as sequences of their parts     *)
(* (<<"AI", "100">> for "AI100"); a random draw that the code only ever    *)
(* formats into a string is drawn as that string. Strings the code parses,  *)
(* formats or compares (dates, times, durations) are sequences of code     *)
(* points.                                                                 *)
(***************************************************************************)
EXTENDS Integers, Sequences, FiniteSets, TLC

VARIABLES
    flights,        \* table flights: id -> row (id is the PRIMARY KEY)
    reservations,   \* table reservations: id -> row
    res_seq,        \* sqlite_sequence entry of reservations (AUTOINCREMENT)
    result,         \* what the last ledger call returned to its caller
    pc,             \* per session: position inside a running book_ticket or
                    \* cancel_reservation
    call,           \* per session: locals of the running call
    conn_tx,        \* the statements executed on the module-level connection
                    \* (line 21) and not yet committed
    today,          \* the day datetime.now() falls on
    request,        \* the arguments of a search under test
    offers,         \* the list generate_mock_flights returned for request
    users,          \* table users: id -> row
    session         \* per session: st.session_state

vars == <<flights, reservations, res_seq, result, pc, call, conn_tx, today, request, offers,
          users, session>>

\* flights, reservations, users and res_seq are the committed contents of airline.db

----------------------------------------------------------------------------
(* Bounds of the model *)

\* reservation ids handed out in the sequential ledger (Spec)
MaxBookings == 2
\* cancel_reservation raises seats_available without limit; stop this many
\* increments above the largest seat count enumerated
MaxSeatBumps == 1
\* reservation ids handed out when sessions interleave (SpecSessions)
MaxSessionBookings == 6
\* days the clock moves forward (SpecClock)
MaxTicks == 1
\* rows of the users table
MaxUsers == 4
\* reservation ids handed out through the pages (SpecPages)
MaxPageBookings == 1

----------------------------------------------------------------------------
(* Generator: src/mock_flight_data.py *)

airlines ==
    << [code |-> "AI", name |-> "Air India"],
       [code |-> "BA", name |-> "British Airways"],
       [code |-> "LH", name |-> "Lufthansa"],
       [code |-> "EK", name |-> "Emirates"],
       [code |-> "QR", name |-> "Qatar Airways"],
       [code |-> "SQ", name |-> "Singapore Airlines"] >>

aircraft_types ==
    << "Boeing 777-300ER", "Boeing 787-9", "Airbus A380-800",
       "Airbus A350-900", "Boeing 737-800", "Airbus A320neo" >>

departure_hours == <<7, 9, 12, 14, 17, 20>>

\* random.randint(5, 6)
NumFlightsMin == 5
NumFlightsMax == 6
\* random.randint(5, 50)
SeatsMin == 5
SeatsMax == 50
\* random.randint(200, 500)
BasePriceMin == 200
BasePriceMax == 500
\* random.randint(1, 8)
DurationHoursMin == 1
DurationHoursMax == 8

\* f"MOCK-{i+1}"
MockIds == <<"MOCK-1", "MOCK-2", "MOCK-3", "MOCK-4", "MOCK-5", "MOCK-6">>

\* the characters of f"{x:02d}" for 0 <= x <= 99, as code points
TwoDigits(x) == <<48 + (x \div 10), 48 + (x % 10)>>

\* f"{dep_hour:02d}:{dep_minute:02d}"
departure_time(h, m) == TwoDigits(h) \o <<58>> \o TwoDigits(m)

\* Python's < on two strings (sequences of code points)
RECURSIVE StrLess(_, _)
StrLess(a, b) ==
    IF b = <<>> THEN FALSE
    ELSE IF a = <<>> THEN TRUE
    ELSE IF Head(a) # Head(b) THEN Head(a) < Head(b)
    ELSE StrLess(Tail(a), Tail(b))

\* the step putting f in front, whatever its key
InsertByDepartureFront(s, f) == <<f>> \o s

\* one step of list.sort(key=lambda x: x[6]): stable insertion of f into the sorted s
RECURSIVE InsertByDeparture(_, _)
InsertByDeparture(s, f) ==
    IF s = <<>> THEN <<f>>
    ELSE IF StrLess(f.departure_time, Head(s).departure_time)
         THEN <<f>> \o s
         ELSE <<Head(s)>> \o InsertByDeparture(Tail(s), f)

RECURSIVE SortByDeparture(_)
SortByDeparture(s) ==
    IF s = <<>> THEN <<>>
    ELSE InsertByDeparture(SortByDeparture(SubSeq(s, 1, Len(s) - 1)), s[Len(s)])

\* a calendar day, as a datetime holds it
Date(y, m, d) == [year |-> y, month |-> m, day |-> d]

IsLeap(y) == (y % 4 = 0 /\ y % 100 # 0) \/ y % 400 = 0

DaysInMonth(y, m) ==
    IF m = 2 THEN (IF IsLeap(y) THEN 29 ELSE 28)
    ELSE IF m \in {4, 6, 9, 11} THEN 30 ELSE 31

\* date + timedelta(days=1)
NextDay(dt) ==
    IF dt.day < DaysInMonth(dt.year, dt.month) THEN Date(dt.year, dt.month, dt.day + 1)
    ELSE IF dt.month < 12 THEN Date(dt.year, dt.month + 1, 1)
    ELSE Date(dt.year + 1, 1, 1)

RECURSIVE AddDays(_, _)
AddDays(dt, n) == IF n = 0 THEN dt ELSE AddDays(NextDay(dt), n - 1)

\* the characters of f"{x:04d}" for 0 <= x <= 9999
FourDigits(x) ==
    <<48 + (x \div 1000), 48 + ((x \div 100) % 10), 48 + ((x \div 10) % 10), 48 + (x % 10)>>

\* the characters of f"{x}" for 0 <= x <= 99
Decimal(x) == IF x < 10 THEN <<48 + x>> ELSE TwoDigits(x)

\* strftime("%Y-%m-%d"), for the years 1000..9999
strftime_date(dt) ==
    FourDigits(dt.year) \o <<45>> \o TwoDigits(dt.month) \o <<45>> \o TwoDigits(dt.day)

\* the number a run of decimal digits denotes
RECURSIVE CodesValue(_)
CodesValue(cs) ==
    IF cs = <<>> THEN 0
    ELSE 10 * CodesValue(SubSeq(cs, 1, Len(cs) - 1)) + (cs[Len(cs)] - 48)

NoDate == Date(0, 0, 0)

\* datetime.strptime(s, "%Y-%m-%d"): four digits of year, "-", one or two digits of
\* month, "-", one or two digits of day, naming a day of the calendar; anything
\* else raises ValueError (ok = FALSE)
strptime_date(s) ==
    LET dashes == {k \in 1..Len(s) : s[k] = 45}
        k2     == CHOOSE k \in dashes : k # 5
        y      == CodesValue(SubSeq(s, 1, 4))
        m      == CodesValue(SubSeq(s, 6, k2 - 1))
        d      == CodesValue(SubSeq(s, k2 + 1, Len(s)))
    IN IF /\ Cardinality(dashes) = 2
          /\ 5 \in dashes
          /\ k2 \in 7..8
          /\ Len(s) - k2 \in 1..2
          /\ \A k \in 1..Len(s) : k \in dashes \/ s[k] \in 48..57
          /\ y >= 1
          /\ m \in 1..12
          /\ d \in 1..DaysInMonth(y, m)
       THEN [ok |-> TRUE, date |-> Date(y, m, d)]
       ELSE [ok |-> FALSE, date |-> NoDate]

\* the sum keeping the departure day
arr_datetime_same_day(dep_date, dep_hour, dep_minute, duration_hours, duration_minutes) ==
    LET total == dep_hour * 60 + dep_minute + duration_hours * 60 + duration_minutes
    IN [date |-> dep_date, minute |-> total % 1440]

\* dep_datetime + timedelta(hours=duration_hours, minutes=duration_minutes), as
\* [date, minute of the day]
arr_datetime(dep_date, dep_hour, dep_minute, duration_hours, duration_minutes) ==
    LET total == dep_hour * 60 + dep_minute + duration_hours * 60 + duration_minutes
    IN [date |-> AddDays(dep_date, total \div 1440), minute |-> total % 1440]

\* strftime("%H:%M")
strftime_time(minute_of_day) ==
    TwoDigits(minute_of_day \div 60) \o <<58>> \o TwoDigits(minute_of_day % 60)

\* f"{duration_hours}h {duration_minutes}m"
duration(duration_hours, duration_minutes) ==
    Decimal(duration_hours) \o <<104, 32>> \o Decimal(duration_minutes) \o <<109>>

\* round(x, 2) of a price held in thousandths, giving hundredths (ties to even)
Round2(thousandths) ==
    LET q == thousandths \div 10
        r == thousandths % 10
    IN IF r > 5 \/ (r = 5 /\ q % 2 = 1) THEN q + 1 ELSE q

\* the price without the class multipliers
price_flat(base_price, flight_class) == Round2(base_price * 1000)

\* lines 81-90: the price, in hundredths
price(base_price, flight_class) ==
    Round2(IF flight_class = "Business" THEN base_price * 2500
           ELSE IF flight_class = "First" THEN base_price * 4000
           ELSE base_price * 1000)

\* the flight tuple built by iteration i (1-based here, i-1 in the code);
\* dep_date is the parsed departure_date or the current date
MockFlight(i, origin, destination, departure_date, dep_date, flight_class, rnd) ==
    LET dep_hour == departure_hours[((i - 1) % Len(departure_hours)) + 1]
        arr == arr_datetime(dep_date, dep_hour, rnd.minute[i], rnd.dur_h[i], rnd.dur_m[i])
    IN
    [ id             |-> MockIds[i],
      flight_number  |-> <<airlines[((i - 1) % Len(airlines)) + 1].code, rnd.num[i]>>,
      airline        |-> airlines[((i - 1) % Len(airlines)) + 1].name,
      origin         |-> origin,
      destination    |-> destination,
      departure_date |-> departure_date,
      departure_time |-> departure_time(dep_hour, rnd.minute[i]),
      arrival_date   |-> strftime_date(arr.date),
      arrival_time   |-> strftime_time(arr.minute),
      duration       |-> duration(rnd.dur_h[i], rnd.dur_m[i]),
      aircraft       |-> aircraft_types[((i - 1) % Len(aircraft_types)) + 1],
      price          |-> price(rnd.base[i], flight_class),
      seats_available |-> rnd.seats[i],
      class          |-> flight_class ]

\* rnd: the outcome of the random draws of one call; now: the day datetime.now()
\* falls on
generate_mock_flights(origin, destination, departure_date, flight_class, rnd, now) ==
    LET parsed   == strptime_date(departure_date)
        dep_date == IF parsed.ok THEN parsed.date ELSE now
    IN SortByDeparture([i \in 1..rnd.n |->
           MockFlight(i, origin, destination, departure_date, dep_date, flight_class, rnd)])

----------------------------------------------------------------------------
(* The random outcomes of one generate_mock_flights call that are enumerated.
   The draws of the first flight of the roster vary; the other flights take
   the first value of each range. *)

\* random.randint(100, 999), formatted into the flight number
NumDraws == {"100", "101"}
\* random.choice([0, 15, 30, 45])
MinuteDraws == {0, 15, 30, 45}
\* random.randint(5, 50), the values enumerated
SeatDraws == {SeatsMin, SeatsMin + 1}

FirstVaries(S, rest) ==
    { [i \in 1..NumFlightsMax |-> IF i = 1 THEN v ELSE rest] : v \in S }

LedgerDraws ==
    { [n |-> n, num |-> num, minute |-> minute, seats |-> seats,
       dur_h |-> dur_h, dur_m |-> dur_m, base |-> base] :
        n \in NumFlightsMin..NumFlightsMax,
        num \in FirstVaries(NumDraws, "100"),
        minute \in FirstVaries({0}, 0),
        seats \in FirstVaries(SeatDraws, SeatsMin),
        dur_h \in FirstVaries({DurationHoursMin}, DurationHoursMin),
        dur_m \in FirstVaries({0}, 0),
        base \in FirstVaries({BasePriceMin}, BasePriceMin) }

----------------------------------------------------------------------------
(* Ledger: src/airline_reservation.py *)

NoFlight == [id |-> ""]

\* the columns of a flights row, from a generated flight tuple
FlightRow(f) ==
    [ flight_number   |-> f.flight_number,
      airline         |-> f.airline,
      origin          |-> f.origin,
      destination     |-> f.destination,
      departure_date  |-> f.departure_date,
      departure_time  |-> f.departure_time,
      arrival_date    |-> f.arrival_date,
      arrival_time    |-> f.arrival_time,
      duration        |-> f.duration,
      aircraft        |-> f.aircraft,
      price           |-> f.price,
      seats_available |-> f.seats_available,
      class           |-> f.class ]

\* SELECT id FROM flights WHERE flight_number = ?
FlightNumberExists(tbl, flight_number) ==
    \E id \in DOMAIN tbl : tbl[id].flight_number = flight_number

\* the loop adding the offer's seats to the row that shares its flight number
RECURSIVE StoreLoopRestock(_, _)
StoreLoopRestock(tbl, batch) ==
    IF batch = <<>> THEN [ok |-> TRUE, tbl |-> tbl]
    ELSE LET f == Head(batch) IN
         IF FlightNumberExists(tbl, f.flight_number)
         THEN StoreLoopRestock(
                [id \in DOMAIN tbl |->
                    IF tbl[id].flight_number = f.flight_number
                    THEN [tbl[id] EXCEPT !.seats_available = @ + f.seats_available]
                    ELSE tbl[id]],
                Tail(batch))
         ELSE IF f.id \in DOMAIN tbl
              THEN [ok |-> FALSE, tbl |-> tbl]
              ELSE StoreLoopRestock([id \in DOMAIN tbl \cup {f.id} |->
                                        IF id = f.id THEN FlightRow(f) ELSE tbl[id]],
                                    Tail(batch))

\* the loop with INSERT OR REPLACE: an id already present is overwritten
RECURSIVE StoreLoopReplace(_, _)
StoreLoopReplace(tbl, batch) ==
    IF batch = <<>> THEN [ok |-> TRUE, tbl |-> tbl]
    ELSE LET f == Head(batch) IN
         IF FlightNumberExists(tbl, f.flight_number)
         THEN StoreLoopReplace(tbl, Tail(batch))
         ELSE StoreLoopReplace([id \in DOMAIN tbl \cup {f.id} |->
                                   IF id = f.id THEN FlightRow(f) ELSE tbl[id]],
                               Tail(batch))

\* the loop storing an offer whose id is taken under a seventh id
RECURSIVE StoreLoopSpareId(_, _)
StoreLoopSpareId(tbl, batch) ==
    IF batch = <<>> THEN [ok |-> TRUE, tbl |-> tbl]
    ELSE LET f  == Head(batch)
             id == IF f.id \in DOMAIN tbl THEN "MOCK-7" ELSE f.id
         IN IF FlightNumberExists(tbl, f.flight_number)
            THEN StoreLoopSpareId(tbl, Tail(batch))
            ELSE IF id \in DOMAIN tbl
                 THEN [ok |-> FALSE, tbl |-> tbl]
                 ELSE StoreLoopSpareId([k \in DOMAIN tbl \cup {id} |->
                                           IF k = id THEN FlightRow(f) ELSE tbl[k]],
                                       Tail(batch))

\* the for loop of store_mock_flights inside its transaction: tbl is what the
\* connection sees; an INSERT of an id already present raises (PRIMARY KEY)
RECURSIVE StoreLoop(_, _)
StoreLoop(tbl, batch) ==
    IF batch = <<>> THEN [ok |-> TRUE, tbl |-> tbl]
    ELSE LET f == Head(batch) IN
         IF FlightNumberExists(tbl, f.flight_number)
         THEN StoreLoop(tbl, Tail(batch))
         ELSE IF f.id \in DOMAIN tbl
              THEN [ok |-> FALSE, tbl |-> tbl]
              ELSE StoreLoop([id \in DOMAIN tbl \cup {f.id} |->
                                 IF id = f.id THEN FlightRow(f) ELSE tbl[id]],
                             Tail(batch))

\* the flights table after store_mock_flights(batch): commit, or rollback on error
store_mock_flights(tbl, batch) ==
    LET r == StoreLoop(tbl, batch) IN IF r.ok THEN r.tbl ELSE tbl

\* an argument left at its default None
NoneArg == "<None>"

\* the list search_flights returns: flight_class None becomes "Economy", a
\* departure_date that is None or empty (<<>>) becomes the current day
search_flights(origin, destination, departure_date, flight_class, rnd, now) ==
    generate_mock_flights(origin, destination,
        IF departure_date # <<>> THEN departure_date ELSE strftime_date(now),
        IF flight_class = NoneArg THEN "Economy" ELSE flight_class,
        rnd, now)

\* Python values passed as user_id: None, an int, or a str (a sequence of characters)
PyNone == [kind |-> "none", int |-> 0, str |-> <<>>]
PyInt(n) == [kind |-> "int", int |-> n, str |-> <<>>]
PyStr(cs) == [kind |-> "str", int |-> 0, str |-> cs]

\* Python truthiness: None, 0 and "" are falsy
Truthy(v) ==
    CASE v.kind = "none" -> FALSE
      [] v.kind = "int"  -> v.int # 0
      [] v.kind = "str"  -> v.str # <<>>

DigitChars == <<"0", "1", "2", "3", "4", "5", "6", "7", "8", "9">>

DigitValue(c) == CHOOSE d \in 0..9 : DigitChars[d + 1] = c

IsDigit(c) == \E d \in 0..9 : DigitChars[d + 1] = c

RECURSIVE DigitsValue(_)
DigitsValue(cs) ==
    IF cs = <<>> THEN 0
    ELSE 10 * DigitsValue(SubSeq(cs, 1, Len(cs) - 1)) + DigitValue(cs[Len(cs)])

\* int(user_id): [ok, value]; ValueError / TypeError give ok = FALSE
ParseUserId(v) ==
    CASE v.kind = "int" -> [ok |-> TRUE, value |-> v.int]
      [] v.kind = "str" ->
            IF v.str # <<>> /\ \A k \in 1..Len(v.str) : IsDigit(v.str[k])
            THEN [ok |-> TRUE, value |-> DigitsValue(v.str)]
            ELSE [ok |-> FALSE, value |-> 0]
      [] v.kind = "none" -> [ok |-> FALSE, value |-> 0]

\* f"TKT-{random.randint(10000, 99999)}"
TicketId(draw) == <<"TKT-", draw>>

NoTicket == <<>>

\* the flight_number column of a reservation: from st.session_state.selected_flight
\* when one is set, else f"FLIGHT-{flight_id}"
ReservationFlightNumber(selected_flight, flight_id) ==
    IF selected_flight # NoFlight
    THEN <<selected_flight.airline, " ">> \o selected_flight.flight_number
    ELSE <<"FLIGHT-", flight_id>>

\* the check without its seat_number operand
BookFieldsMissingNoSeat(passenger_name, flight_id, seat_number, user_id) ==
    passenger_name = "" \/ flight_id = "" \/ ~Truthy(user_id)

\* if not passenger_name or not flight_id or not seat_number or not user_id
BookFieldsMissing(passenger_name, flight_id, seat_number, user_id) ==
    passenger_name = "" \/ flight_id = "" \/ seat_number = "" \/ ~Truthy(user_id)

\* the values bound to the INSERT in the wrong order: passenger and seat swapped
BookRowSwapped(passenger_name, flight_id, seat_number, uid, extras, ticket_id, selected_flight, booking_date) ==
    [ user_id        |-> uid,
      flight_id      |-> flight_id,
      passenger_name |-> seat_number,
      flight_number  |-> ReservationFlightNumber(selected_flight, flight_id),
      seat_number    |-> passenger_name,
      booking_date   |-> booking_date,
      status         |-> "Confirmed",
      ticket_id      |-> ticket_id,
      extras         |-> extras ]

\* the row book_ticket inserts
BookRow(passenger_name, flight_id, seat_number, uid, extras, ticket_id, selected_flight, booking_date) ==
    [ user_id        |-> uid,
      flight_id      |-> flight_id,
      passenger_name |-> passenger_name,
      flight_number  |-> ReservationFlightNumber(selected_flight, flight_id),
      seat_number    |-> seat_number,
      booking_date   |-> booking_date,
      status         |-> "Confirmed",
      ticket_id      |-> ticket_id,
      extras         |-> extras ]

\* INSERT INTO reservations: the row gets the next AUTOINCREMENT id
InsertReservation(tbl, seq, row) ==
    [id \in DOMAIN tbl \cup {seq + 1} |-> IF id = seq + 1 THEN row ELSE tbl[id]]

\* what a ledger call hands back: (success, message), the ticket id the message
\* carries; for a call that returns no message, msg is what it printed
Result(op, ok, msg, ticket_id) ==
    [op |-> op, ok |-> ok, msg |-> msg, ticket_id |-> ticket_id]

\* the largest id of a table (0 when it is empty)
MaxId(tbl) == IF DOMAIN tbl = {} THEN 0 ELSE CHOOSE m \in DOMAIN tbl : \A k \in DOMAIN tbl : k <= m

\* the filter without its WHERE clause
UserIdMatchesAny(col, v) == TRUE

\* WHERE user_id = ?: the INTEGER column against the bound value; a text value
\* is compared as a number when it is one, None (NULL) matches nothing
UserIdMatches(col, v) ==
    CASE v.kind = "int"  -> col = v.int
      [] v.kind = "str"  -> ParseUserId(v).ok /\ col = ParseUserId(v).value
      [] v.kind = "none" -> FALSE

RECURSIVE ScanUser(_, _, _)
ScanUser(tbl, user_id, k) ==
    IF k > MaxId(tbl) THEN <<>>
    ELSE (IF k \in DOMAIN tbl /\ UserIdMatches(tbl[k].user_id, user_id)
          THEN << [id |-> k] @@ tbl[k] >>
          ELSE <<>>) \o ScanUser(tbl, user_id, k + 1)

\* a database in which CREATE TABLE reservations has not run (row ids start at 1)
NoTable == [id \in {0} |-> "no such table: reservations"]

\* get_user_bookings: [] when sqlite_master lists no reservations table, else
\* SELECT id, user_id, ... FROM reservations WHERE user_id = ?  (a table scan, in
\* rowid order: the query has no ORDER BY)
get_user_bookings(tbl, user_id) ==
    IF tbl = NoTable THEN <<>> ELSE ScanUser(tbl, user_id, 1)

\* a sign slip in the seat update
SeatsAfterCancelDown(n) == n - 1

\* UPDATE flights SET seats_available=seats_available+1 WHERE id=?
SeatsAfterCancel(n) == n + 1

\* the statement deleting the flight row
RestoreSeatDrop(tbl, flight_id) ==
    [id \in DOMAIN tbl \ {flight_id} |-> tbl[id]]

RestoreSeat(tbl, flight_id) ==
    [id \in DOMAIN tbl |->
        IF id = flight_id
        THEN [tbl[id] EXCEPT !.seats_available = SeatsAfterCancel(@)]
        ELSE tbl[id]]

\* UPDATE reservations SET status='Cancelled' WHERE id=?
MarkCancelled(tbl, reservation_id) ==
    [tbl EXCEPT ![reservation_id].status = "Cancelled"]

\* DELETE FROM reservations WHERE id = ?
DeleteReservation(tbl, booking_id) ==
    [id \in DOMAIN tbl \ {booking_id} |-> tbl[id]]

\* the two statements of cancel_reservation(reservation_id), as the module-level
\* connection holds them until it commits
SeatUpdate(flight_id, reservation_id) ==
    [stmt |-> "UPDATE flights", flight_id |-> flight_id, reservation_id |-> reservation_id]

StatusUpdate(reservation_id) ==
    [stmt |-> "UPDATE reservations", flight_id |-> "", reservation_id |-> reservation_id]

\* db is [flights, reservations]; the tables after statement w
Execute(db, w) ==
    IF w.stmt = "UPDATE flights"
    THEN [db EXCEPT !.flights = RestoreSeat(@, w.flight_id)]
    ELSE [db EXCEPT !.reservations =
             IF w.reservation_id \in DOMAIN @ THEN MarkCancelled(@, w.reservation_id) ELSE @]

RECURSIVE ExecuteAll(_, _)
ExecuteAll(db, tx) ==
    IF tx = <<>> THEN db ELSE ExecuteAll(Execute(db, Head(tx)), Tail(tx))

----------------------------------------------------------------------------
(* Inputs *)

Sessions == {"s1", "s2"}

OriginInputs == {"DEL"}
DestinationInputs == {"BOM"}
\* the day the model starts on
StartDay == Date(2025, 6, 1)
\* departure_date.strftime("%Y-%m-%d") of the booking page
DateInputs == {strftime_date(StartDay)}
ClassInputs == {"Economy"}

PassengerInputs == {"", "Asha Rao"}
FlightIdInputs == {"", "MOCK-1"}
SeatInputs == {"", "A1"}
UserIdInputs == {PyNone, PyInt(1), PyStr(<<"2">>), PyStr(<<"a", "b", "c">>)}
ExtrasInputs == {"None"}
\* random.randint(10000, 99999), formatted into the ticket id
TicketDraws == {"10000", "10001"}

ReservationIdInputs == 1..MaxBookings

\* st.session_state.selected_flight as book_ticket finds it: the flight whose id
\* is being booked (the booking form sets it before it calls book_ticket)
SelectedFlightInputs(flight_id) ==
    IF flight_id \in DOMAIN flights
    THEN {[id |-> flight_id] @@ flights[flight_id]}
    ELSE {NoFlight}

\* seats_available is not raised past this value
SeatsCap == SeatsMin + 1 + MaxSeatBumps

\* the days the clock shows
ClockDays == {AddDays(StartDay, k) : k \in 0..MaxTicks}

\* the airports of the two select boxes of the booking page
AirportInputs == {"DEL", "BOM"}

\* the arguments, draws and days of the searches of the ledger and the pages
LedgerSearchArgs ==
    (OriginInputs \cup AirportInputs) \X (DestinationInputs \cup AirportInputs)
        \X DateInputs \X ClassInputs \X LedgerDraws \X ClockDays

\* search_flights over LedgerSearchArgs, tabulated (@@ makes the table a stored
\* function, evaluated once)
SearchTable ==
    [a \in LedgerSearchArgs |-> search_flights(a[1], a[2], a[3], a[4], a[5], a[6])] @@ <<>>

\* the list search_flights returns, looked up
LedgerSearch(origin, destination, departure_date, flight_class, rnd, now) ==
    SearchTable[<<origin, destination, departure_date, flight_class, rnd, now>>]

----------------------------------------------------------------------------
(* State *)

Idle == [passenger_name |-> "", flight_id |-> "", seat_number |-> "", uid |-> 0,
         extras |-> "", ticket_id |-> NoTicket, selected_flight |-> NoFlight,
         booking_date |-> <<>>, reservation_id |-> 0]

NoRequest == [origin |-> "", destination |-> "", departure_date |-> <<>>,
              flight_class |-> NoneArg]

\* a character string, as the sequence of its characters
admin == <<"a", "d", "m", "i", "n">>
admin123 == <<"a", "d", "m", "i", "n", "1", "2", "3">>
user == <<"u", "s", "e", "r">>
user123 == <<"u", "s", "e", "r", "1", "2", "3">>

\* the users create_tables inserts into an empty table
SampleUsers ==
    << [username |-> admin, password |-> admin123],
       [username |-> user, password |-> user123] >>

\* st.session_state as main() initialises it; cancel_state holds the booking ids
\* whose cancel_state_<id> flag is True (a flag that is absent is set to False
\* before it is read)
NewSession ==
    [ logged_in       |-> FALSE,
      current_user    |-> PyNone,
      current_user_id |-> PyNone,
      page            |-> "login",
      flights         |-> <<>>,
      selected_flight |-> NoFlight,
      cancel_state    |-> {} ]

\* the database after create_tables, nothing running, nothing searched
InitLedger ==
    /\ flights = <<>>
    /\ reservations = <<>>
    /\ res_seq = 0
    /\ result = Result("create_tables", TRUE, "", NoTicket)
    /\ pc = [s \in Sessions |-> "idle"]
    /\ call = [s \in Sessions |-> Idle]
    /\ conn_tx = <<>>
    /\ today = StartDay
    /\ offers = <<>>
    /\ users = SampleUsers
    /\ session = [s \in Sessions |-> NewSession]

Init == InitLedger /\ request = NoRequest

----------------------------------------------------------------------------
(* The ledger calls, each run to completion *)

\* a connection that has written and not yet committed holds the database's write
\* lock: a session between its INSERT and its commit, or the module-level
\* connection with statements pending
WriteLocked == (\E s \in Sessions : pc[s] \in {"commit", "reg_commit"}) \/ conn_tx # <<>>

\* search_flights: generate, then store (store_mock_flights waits for the write
\* lock); a failed store is rolled back and printed, the list is returned anyway
SearchCall(origin, destination, departure_date, flight_class, rnd) ==
    /\ ~WriteLocked
    /\ LET batch == LedgerSearch(origin, destination, departure_date, flight_class,
                                 rnd, today)
       IN /\ flights' = store_mock_flights(flights, batch)
          /\ result' = Result("search_flights", TRUE,
                              IF StoreLoop(flights, batch).ok THEN ""
                              ELSE "Error storing mock flights",
                              NoTicket)

\* search_flights called on its own
Search(origin, destination, departure_date, flight_class, rnd) ==
    /\ SearchCall(origin, destination, departure_date, flight_class, rnd)
    /\ UNCHANGED <<reservations, res_seq, pc, call, conn_tx, today, request, offers, users, session>>

\* book_ticket; flight_id is the id of a flight the caller picked from a search
\* result, so it names a row of flights when it is not empty
Book(passenger_name, flight_id, seat_number, user_id, extras) ==
    /\ flight_id = "" \/ flight_id \in DOMAIN flights
    /\ IF BookFieldsMissing(passenger_name, flight_id, seat_number, user_id)
       THEN /\ result' = Result("book_ticket", FALSE, "All fields are required", NoTicket)
            /\ UNCHANGED <<reservations, res_seq>>
       ELSE IF ~ParseUserId(user_id).ok
       THEN /\ result' = Result("book_ticket", FALSE, "Invalid user ID format", NoTicket)
            /\ UNCHANGED <<reservations, res_seq>>
       ELSE \E draw \in TicketDraws, selected_flight \in SelectedFlightInputs(flight_id) :
            /\ res_seq < MaxBookings
            /\ reservations' = InsertReservation(reservations, res_seq,
                    BookRow(passenger_name, flight_id, seat_number,
                            ParseUserId(user_id).value, extras, TicketId(draw),
                            selected_flight, strftime_date(today)))
            /\ res_seq' = res_seq + 1
            /\ result' = Result("book_ticket", TRUE,
                                "Ticket booked successfully! Your ticket ID is",
                                TicketId(draw))
    /\ UNCHANGED <<flights, pc, call, conn_tx, today, request, offers, users, session>>

\* cancel_reservation: restore the seat and mark the row, when the row exists
CancelReservation(reservation_id) ==
    /\ IF reservation_id \in DOMAIN reservations
       THEN /\ \A id \in DOMAIN flights :
                    id = reservations[reservation_id].flight_id
                        => flights[id].seats_available < SeatsCap
            /\ flights' = RestoreSeat(flights, reservations[reservation_id].flight_id)
            /\ reservations' = MarkCancelled(reservations, reservation_id)
            /\ result' = Result("cancel_reservation", TRUE, "", NoTicket)
       ELSE /\ result' = Result("cancel_reservation", FALSE, "", NoTicket)
            /\ UNCHANGED <<flights, reservations>>
    /\ UNCHANGED <<res_seq, pc, call, conn_tx, today, request, offers, users, session>>

\* the call deleting without looking the booking up first
CancelBookingBlind(booking_id) ==
    /\ reservations' = DeleteReservation(reservations, booking_id)
    /\ result' = Result("cancel_booking", TRUE,
                        "Your booking has been successfully cancelled.", NoTicket)
    /\ UNCHANGED <<flights, res_seq, pc, call, conn_tx, today, request, offers, users, session>>

\* cancel_booking: delete the row, when it exists
CancelBookingCall(booking_id) ==
    IF booking_id \in DOMAIN reservations
    THEN /\ reservations' = DeleteReservation(reservations, booking_id)
         /\ result' = Result("cancel_booking", TRUE,
                             "Your booking has been successfully cancelled.", NoTicket)
    ELSE /\ result' = Result("cancel_booking", FALSE, "Booking not found.", NoTicket)
         /\ UNCHANGED reservations

\* cancel_booking called on its own
CancelBooking(booking_id) ==
    /\ CancelBookingCall(booking_id)
    /\ UNCHANGED <<flights, res_seq, pc, call, conn_tx, today, request, offers, users, session>>

Next ==
    \/ \E o \in OriginInputs, d \in DestinationInputs, dt \in DateInputs,
          c \in ClassInputs, rnd \in LedgerDraws : Search(o, d, dt, c, rnd)
    \/ \E p \in PassengerInputs, f \in FlightIdInputs, s \in SeatInputs,
          u \in UserIdInputs, x \in ExtrasInputs : Book(p, f, s, u, x)
    \/ \E r \in ReservationIdInputs : CancelReservation(r)
    \/ \E r \in ReservationIdInputs : CancelBooking(r)

Spec == Init /\ [][Next]_vars

----------------------------------------------------------------------------
(* Two browser sessions, each running book_ticket on its own connection; the
   statements of the two calls interleave *)

\* st.session_state.current_user_id of each session
SessionUser == [s \in Sessions |-> IF s = "s1" THEN PyInt(1) ELSE PyStr(<<"2">>)]

SessionPassengerInputs == {"", "Asha Rao"}
SessionSeatInputs == {"A1"}
SessionTicketDraws == {"10000"}

\* lines 293-329: validation, int(user_id), ticket id, flight number, PRAGMA
BookBegin(s, passenger_name, flight_id, seat_number, extras) ==
    /\ pc[s] = "idle"
    /\ flight_id \in DOMAIN flights
    /\ res_seq + Cardinality({t \in Sessions : pc[t] # "idle"}) < MaxSessionBookings
    /\ IF BookFieldsMissing(passenger_name, flight_id, seat_number, SessionUser[s])
       THEN /\ result' = Result("book_ticket", FALSE, "All fields are required", NoTicket)
            /\ UNCHANGED <<pc, call>>
       ELSE IF ~ParseUserId(SessionUser[s]).ok
       THEN /\ result' = Result("book_ticket", FALSE, "Invalid user ID format", NoTicket)
            /\ UNCHANGED <<pc, call>>
       ELSE \E draw \in SessionTicketDraws,
               selected_flight \in SelectedFlightInputs(flight_id) :
            /\ call' = [call EXCEPT ![s] =
                    [passenger_name |-> passenger_name, flight_id |-> flight_id,
                     seat_number |-> seat_number,
                     uid |-> ParseUserId(SessionUser[s]).value,
                     extras |-> extras, ticket_id |-> TicketId(draw),
                     selected_flight |-> selected_flight,
                     booking_date |-> strftime_date(today), reservation_id |-> 0]]
            /\ pc' = [pc EXCEPT ![s] = "insert"]
            /\ UNCHANGED result
    /\ UNCHANGED <<flights, reservations, res_seq, conn_tx, today, request, offers, users, session>>

\* lines 332-346: the INSERT takes the write lock and stays uncommitted
BookInsert(s) ==
    /\ pc[s] = "insert"
    /\ ~WriteLocked
    /\ pc' = [pc EXCEPT ![s] = "commit"]
    /\ UNCHANGED <<flights, reservations, res_seq, result, call, conn_tx, today, request, offers, users, session>>

\* the INSERT finds the database locked until its timeout: line 350-351
BookBusy(s) ==
    /\ pc[s] = "insert"
    /\ WriteLocked
    /\ result' = Result("book_ticket", FALSE, "Error booking ticket: database is locked",
                        NoTicket)
    /\ pc' = [pc EXCEPT ![s] = "idle"]
    /\ call' = [call EXCEPT ![s] = Idle]
    /\ UNCHANGED <<flights, reservations, res_seq, conn_tx, today, request, offers, users, session>>

\* lines 348-349: commit and return
BookCommit(s) ==
    /\ pc[s] = "commit"
    /\ reservations' = InsertReservation(reservations, res_seq,
            BookRow(call[s].passenger_name, call[s].flight_id, call[s].seat_number,
                    call[s].uid, call[s].extras, call[s].ticket_id,
                    call[s].selected_flight, call[s].booking_date))
    /\ res_seq' = res_seq + 1
    /\ result' = Result("book_ticket", TRUE,
                        "Ticket booked successfully! Your ticket ID is", call[s].ticket_id)
    /\ pc' = [pc EXCEPT ![s] = "idle"]
    /\ call' = [call EXCEPT ![s] = Idle]
    /\ UNCHANGED <<flights, conn_tx, today, request, offers, users, session>>

NextSessions ==
    \/ \E o \in OriginInputs, d \in DestinationInputs, dt \in DateInputs,
          c \in ClassInputs, rnd \in LedgerDraws : Search(o, d, dt, c, rnd)
    \/ \E s \in Sessions, p \in SessionPassengerInputs, f \in FlightIdInputs,
          seat \in SessionSeatInputs, x \in ExtrasInputs : BookBegin(s, p, f, seat, x)
    \/ \E s \in Sessions : BookInsert(s)
    \/ \E s \in Sessions : BookBusy(s)
    \/ \E s \in Sessions : BookCommit(s)

SpecSessions == Init /\ [][NextSessions]_vars

----------------------------------------------------------------------------
(* The module-level connection: cancel_reservation statement by statement, with
   the second UPDATE failing or not, and create_tables, which commits on the same
   connection. Calls on the connection run one at a time. *)

\* what the module-level connection reads: the committed tables with its own
\* pending statements applied
ConnView == ExecuteAll([flights |-> flights, reservations |-> reservations], conn_tx)

ConnIdle == \A s \in Sessions : pc[s] = "idle"

\* lines 369-373: the SELECT, and the UPDATE of flights when the row is found
CancelBegin(s, reservation_id) ==
    /\ ConnIdle
    /\ IF reservation_id \in DOMAIN ConnView.reservations
       THEN /\ \A id \in DOMAIN flights :
                    id = ConnView.reservations[reservation_id].flight_id
                        => ConnView.flights[id].seats_available < SeatsCap
            /\ conn_tx' = Append(conn_tx,
                    SeatUpdate(ConnView.reservations[reservation_id].flight_id,
                               reservation_id))
            /\ pc' = [pc EXCEPT ![s] = "cancel_mark"]
            /\ call' = [call EXCEPT ![s] = [Idle EXCEPT !.reservation_id = reservation_id]]
            /\ UNCHANGED result
       ELSE /\ result' = Result("cancel_reservation", FALSE, "", NoTicket)
            /\ UNCHANGED <<conn_tx, pc, call>>
    /\ UNCHANGED <<flights, reservations, res_seq, today, request, offers, users, session>>

\* line 374: the UPDATE of reservations
CancelMark(s) ==
    /\ pc[s] = "cancel_mark"
    /\ conn_tx' = Append(conn_tx, StatusUpdate(call[s].reservation_id))
    /\ pc' = [pc EXCEPT ![s] = "cancel_commit"]
    /\ UNCHANGED <<flights, reservations, res_seq, result, call, today, request, offers, users, session>>

\* line 374 raising (a storage failure): nothing catches it and nothing rolls
\* back, the UPDATE of flights stays pending on the connection
CancelFail(s) ==
    /\ pc[s] = "cancel_mark"
    /\ result' = Result("cancel_reservation", FALSE, "sqlite3.OperationalError", NoTicket)
    /\ pc' = [pc EXCEPT ![s] = "idle"]
    /\ call' = [call EXCEPT ![s] = Idle]
    /\ UNCHANGED <<flights, reservations, res_seq, conn_tx, today, request, offers, users, session>>

\* lines 375-376: conn.commit() makes every pending statement durable
CancelCommit(s) ==
    /\ pc[s] = "cancel_commit"
    /\ flights' = ConnView.flights
    /\ reservations' = ConnView.reservations
    /\ conn_tx' = <<>>
    /\ result' = Result("cancel_reservation", TRUE, "", NoTicket)
    /\ pc' = [pc EXCEPT ![s] = "idle"]
    /\ call' = [call EXCEPT ![s] = Idle]
    /\ UNCHANGED <<res_seq, today, request, offers, users, session>>

\* create_tables, run by main() on every page load: the tables and the sample rows
\* exist already, its conn.commit() (line 124) commits what is pending
CreateTables ==
    /\ ConnIdle
    /\ flights' = ConnView.flights
    /\ reservations' = ConnView.reservations
    /\ conn_tx' = <<>>
    /\ result' = Result("create_tables", TRUE, "", NoTicket)
    /\ UNCHANGED <<res_seq, pc, call, today, request, offers, users, session>>

ConnPassengerInputs == {"Asha Rao"}
ConnFlightIdInputs == {"MOCK-1"}
ConnSeatInputs == {"A1"}
ConnUserIdInputs == {PyInt(1)}

NextConn ==
    \/ \E o \in OriginInputs, d \in DestinationInputs, dt \in DateInputs,
          c \in ClassInputs, rnd \in LedgerDraws : Search(o, d, dt, c, rnd)
    \/ \E p \in ConnPassengerInputs, f \in ConnFlightIdInputs, seat \in ConnSeatInputs,
          u \in ConnUserIdInputs, x \in ExtrasInputs :
          ~WriteLocked /\ ConnIdle /\ Book(p, f, seat, u, x)
    \/ \E s \in Sessions, r \in ReservationIdInputs : CancelBegin(s, r)
    \/ \E s \in Sessions : CancelMark(s)
    \/ \E s \in Sessions : CancelFail(s)
    \/ \E s \in Sessions : CancelCommit(s)
    \/ CreateTables

SpecConn == Init /\ [][NextConn]_vars

----------------------------------------------------------------------------
(* The ledger with a clock: days pass between bookings *)

\* midnight passes
Tick ==
    /\ \E k \in 0..(MaxTicks - 1) : today = AddDays(StartDay, k)
    /\ today' = NextDay(today)
    /\ UNCHANGED <<flights, reservations, res_seq, result, pc, call, conn_tx, request, offers, users, session>>

ClockUserIdInputs == {PyInt(1), PyStr(<<"2">>)}

NextClock ==
    \/ \E o \in OriginInputs, d \in DestinationInputs, dt \in DateInputs,
          c \in ClassInputs, rnd \in LedgerDraws : Search(o, d, dt, c, rnd)
    \/ \E p \in ConnPassengerInputs, f \in ConnFlightIdInputs, seat \in ConnSeatInputs,
          u \in ClockUserIdInputs, x \in ExtrasInputs : Book(p, f, seat, u, x)
    \/ Tick

SpecClock == Init /\ [][NextClock]_vars

----------------------------------------------------------------------------
(* The generator on its own: a request, and the list one call returns for it *)

GenOriginInputs == {"DEL", "BOM"}
GenDestinationInputs == {"BOM"}
GenClassInputs == {NoneArg, "Economy", "Business", "First"}

\* "2025-6-1": a date strptime accepts without its zero padding
UnpaddedDate == <<50, 48, 50, 53, 45, 54, 45, 49>>
\* "2025-02-30": no such day
NoSuchDay == <<50, 48, 50, 53, 45, 48, 50, 45, 51, 48>>
\* "soon"
NotADate == <<115, 111, 111, 110>>

GenDateInputs ==
    { strftime_date(StartDay), strftime_date(Date(2025, 6, 30)),
      strftime_date(Date(2024, 12, 31)), strftime_date(Date(2024, 2, 28)),
      UnpaddedDate, NoSuchDay, NotADate, <<>> }

GenRequests ==
    { [origin |-> o, destination |-> d, departure_date |-> dt, flight_class |-> c] :
        o \in GenOriginInputs, d \in GenDestinationInputs, dt \in GenDateInputs,
        c \in GenClassInputs }

AllSame(v) == [i \in 1..NumFlightsMax |-> v]

\* the draws enumerated for the generator: every flight of a call draws the same
\* values, taken from the ends of each range
GenDraws ==
    { [n |-> n, num |-> AllSame("100"), minute |-> AllSame(minute),
       seats |-> AllSame(SeatsMin), dur_h |-> AllSame(dur_h), dur_m |-> AllSame(dur_m),
       base |-> AllSame(base)] :
        n \in NumFlightsMin..NumFlightsMax,
        minute \in {0, 45},
        dur_h \in {DurationHoursMin, DurationHoursMax},
        dur_m \in {0, 45},
        base \in {BasePriceMin, BasePriceMax} }

InitGen == InitLedger /\ request \in GenRequests

\* one call of the generator for the request, as search_flights makes it
GenerateOffers(rnd) ==
    /\ offers' = search_flights(request.origin, request.destination,
                                request.departure_date, request.flight_class, rnd, today)
    /\ UNCHANGED <<flights, reservations, res_seq, result, pc, call, conn_tx, today, request,
                   users, session>>

NextGen == \E rnd \in GenDraws : GenerateOffers(rnd)

SpecGen == InitGen /\ [][NextGen]_vars

----------------------------------------------------------------------------
(* The sort of the generator: one call for every combination of the minute draws
   of its flights *)

SortRequests ==
    { [origin |-> o, destination |-> d, departure_date |-> dt, flight_class |-> c] :
        o \in OriginInputs, d \in DestinationInputs, dt \in DateInputs,
        c \in ClassInputs }

\* every flight draws its own departure minute; the other draws are fixed
SortDraws ==
    { [n |-> n, num |-> AllSame("100"), minute |-> minute,
       seats |-> AllSame(SeatsMin), dur_h |-> AllSame(DurationHoursMin),
       dur_m |-> AllSame(0), base |-> AllSame(BasePriceMin)] :
        n \in NumFlightsMin..NumFlightsMax,
        minute \in [1..NumFlightsMax -> MinuteDraws] }

InitSort == InitLedger /\ request \in SortRequests

\* the call under test: the generator keeps nothing from one call to the next, so
\* each behaviour makes one call
GenerateOnce(rnd) ==
    /\ offers = <<>>
    /\ GenerateOffers(rnd)

NextSort == \E rnd \in SortDraws : GenerateOnce(rnd)

SpecSort == InitSort /\ [][NextSort]_vars

----------------------------------------------------------------------------
(* Users: authenticate and register_user; each register_user call runs on its own
   connection, and the statements of two calls interleave *)

\* len(username) < 3, len(password) < 6
UsernameMinLen == 3
PasswordMinLen == 6

\* SELECT id FROM users WHERE username = ?
UserIds(tbl, username) == {id \in DOMAIN tbl : tbl[id].username = username}

\* the check that looks at the username only
authenticate_by_name(tbl, username, password) ==
    LET found == UserIds(tbl, username)
        id    == CHOOSE i \in found : \A j \in found : i <= j
    IN IF found # {}
       THEN [ok |-> TRUE, msg |-> "Login successful", user_id |-> PyInt(id)]
       ELSE [ok |-> FALSE, msg |-> "Invalid username or password", user_id |-> PyNone]

\* authenticate: (success, message, user id)
authenticate(tbl, username, password) ==
    LET found == UserIds(tbl, username)
        id    == CHOOSE i \in found : \A j \in found : i <= j
    IN IF found # {} /\ tbl[id].password = password
       THEN [ok |-> TRUE, msg |-> "Login successful", user_id |-> PyInt(id)]
       ELSE [ok |-> FALSE, msg |-> "Invalid username or password", user_id |-> PyNone]

\* lines 160-169: the message of the first check that fails, "" when none does
RegisterInvalid(username, password) ==
    IF username = <<>> \/ password = <<>> THEN "Username and password are required"
    ELSE IF Len(username) < UsernameMinLen
         THEN "Username must be at least 3 characters long"
    ELSE IF Len(password) < PasswordMinLen
         THEN "Password must be at least 6 characters long"
    ELSE ""

\* the INSERT into a table whose username column is not UNIQUE
InsertUserAny(tbl, username, password) ==
    [ok |-> TRUE, tbl |-> Append(tbl, [username |-> username, password |-> password])]

\* INSERT INTO users: the row gets the next AUTOINCREMENT id (rows are never
\* deleted); the UNIQUE constraint on username raises IntegrityError
InsertUser(tbl, username, password) ==
    IF UserIds(tbl, username) # {}
    THEN [ok |-> FALSE, tbl |-> tbl]
    ELSE [ok |-> TRUE, tbl |-> Append(tbl, [username |-> username, password |-> password])]

\* register_user run to completion: (success, message) and the table it leaves
register_user(tbl, username, password) ==
    IF RegisterInvalid(username, password) # ""
    THEN [ok |-> FALSE, msg |-> RegisterInvalid(username, password), tbl |-> tbl]
    ELSE IF UserIds(tbl, username) # {}
    THEN [ok |-> FALSE, msg |-> "Username already exists. Please choose another username.",
          tbl |-> tbl]
    ELSE IF ~InsertUser(tbl, username, password).ok
    THEN [ok |-> FALSE, msg |-> "Error during registration: UNIQUE constraint failed",
          tbl |-> tbl]
    ELSE [ok |-> TRUE, msg |-> "Registration successful! Please log in.",
          tbl |-> InsertUser(tbl, username, password).tbl]

\* lines 160-178: the checks and the SELECT
RegisterBegin(s, username, password) ==
    /\ pc[s] = "idle"
    /\ Len(users) + Cardinality({t \in Sessions : pc[t] # "idle"}) < MaxUsers
    /\ IF RegisterInvalid(username, password) # ""
       THEN /\ result' = Result("register_user", FALSE,
                                RegisterInvalid(username, password), NoTicket)
            /\ UNCHANGED <<pc, call>>
       ELSE IF UserIds(users, username) # {}
       THEN /\ result' = Result("register_user", FALSE,
                    "Username already exists. Please choose another username.", NoTicket)
            /\ UNCHANGED <<pc, call>>
       ELSE /\ call' = [call EXCEPT ![s] = [username |-> username, password |-> password]]
            /\ pc' = [pc EXCEPT ![s] = "reg_insert"]
            /\ UNCHANGED result
    /\ UNCHANGED <<flights, reservations, res_seq, conn_tx, today, request, offers,
                   users, session>>

\* lines 181-184: the INSERT takes the write lock; a username inserted since the
\* SELECT raises (line 193)
RegisterInsert(s) ==
    /\ pc[s] = "reg_insert"
    /\ ~WriteLocked
    /\ IF InsertUser(users, call[s].username, call[s].password).ok
       THEN /\ pc' = [pc EXCEPT ![s] = "reg_commit"]
            /\ UNCHANGED <<result, call>>
       ELSE /\ result' = Result("register_user", FALSE,
                    "Error during registration: UNIQUE constraint failed", NoTicket)
            /\ pc' = [pc EXCEPT ![s] = "idle"]
            /\ call' = [call EXCEPT ![s] = Idle]
    /\ UNCHANGED <<flights, reservations, res_seq, conn_tx, today, request, offers,
                   users, session>>

\* the INSERT finds the database locked until its timeout
RegisterBusy(s) ==
    /\ pc[s] = "reg_insert"
    /\ WriteLocked
    /\ result' = Result("register_user", FALSE,
                        "Error during registration: database is locked", NoTicket)
    /\ pc' = [pc EXCEPT ![s] = "idle"]
    /\ call' = [call EXCEPT ![s] = Idle]
    /\ UNCHANGED <<flights, reservations, res_seq, conn_tx, today, request, offers,
                   users, session>>

\* lines 186-192: commit and return
RegisterCommit(s) ==
    /\ pc[s] = "reg_commit"
    /\ users' = InsertUser(users, call[s].username, call[s].password).tbl
    /\ result' = Result("register_user", TRUE, "Registration successful! Please log in.",
                        NoTicket)
    /\ pc' = [pc EXCEPT ![s] = "idle"]
    /\ call' = [call EXCEPT ![s] = Idle]
    /\ UNCHANGED <<flights, reservations, res_seq, conn_tx, today, request, offers, session>>

neo == <<"n", "e", "o">>
trinity == <<"t", "r", "i", "n", "i", "t", "y">>
secret == <<"s", "e", "c", "r", "e", "t">>

RegisterNameInputs == {<<>>, <<"a", "b">>, admin, neo, trinity}
RegisterPasswordInputs == {<<>>, <<"1", "2", "3", "4", "5">>, secret, admin123}

NextUsers ==
    \/ \E s \in Sessions, u \in RegisterNameInputs, p \in RegisterPasswordInputs :
          RegisterBegin(s, u, p)
    \/ \E s \in Sessions : RegisterInsert(s)
    \/ \E s \in Sessions : RegisterBusy(s)
    \/ \E s \in Sessions : RegisterCommit(s)

SpecUsers == Init /\ [][NextUsers]_vars

----------------------------------------------------------------------------
(* The pages: one action per click, run as main() runs the script for it *)

PublicPages == {"login", "register"}
MemberPages == {"booking", "flight_booking_form", "my_bookings", "profile"}

\* the dispatch showing st.page whether or not the session is logged in
main_any(st) == st.page

\* lines 1838-1889: the page main() renders for session state st
main(st) ==
    IF ~st.logged_in
    THEN (IF st.page \in PublicPages THEN st.page ELSE "login")
    ELSE (IF st.page \in MemberPages THEN st.page ELSE "booking")

\* the session state the rendered page works on: line 1844 sets page to 'login',
\* lines 1893-1896 send a booking form without a selected flight to 'booking'
Entered(st) ==
    IF ~st.logged_in /\ st.page \notin PublicPages THEN [st EXCEPT !.page = "login"]
    ELSE IF st.logged_in /\ st.page = "flight_booking_form" /\ st.selected_flight = NoFlight
    THEN [st EXCEPT !.page = "booking"]
    ELSE st

\* lines 1005-1014: the Login button
Login(s, username, password) ==
    /\ pc[s] = "idle"
    /\ main(session[s]) = "login"
    /\ LET r == authenticate(users, username, password)
       IN /\ result' = Result("authenticate", r.ok, r.msg, NoTicket)
          /\ session' = [session EXCEPT ![s] =
                IF r.ok
                THEN [Entered(@) EXCEPT !.logged_in = TRUE,
                                        !.current_user = PyStr(username),
                                        !.current_user_id = r.user_id,
                                        !.page = "booking"]
                ELSE Entered(@)]
    /\ UNCHANGED <<flights, reservations, res_seq, pc, call, conn_tx, today, request, offers,
                   users>>

\* lines 1016-1018 and 1101-1103: Register on the login page, Back to Login on the
\* registration page
SwitchPublicPage(s) ==
    /\ pc[s] = "idle"
    /\ ~session[s].logged_in
    /\ session' = [session EXCEPT ![s] =
            [Entered(@) EXCEPT !.page = IF main(session[s]) = "login" THEN "register"
                                        ELSE "login"]]
    /\ UNCHANGED <<flights, reservations, res_seq, result, pc, call, conn_tx, today, request,
                   offers, users>>

\* lines 1087-1099: Create Account (the form's other fields are filled in and the
\* two passwords agree); a failure leaves the page where it is
CreateAccount(s, username, password) ==
    /\ pc[s] = "idle"
    /\ main(session[s]) = "register"
    /\ Len(users) < MaxUsers
    /\ LET r == register_user(users, username, password)
       IN /\ users' = r.tbl
          /\ result' = Result("register_user", r.ok, r.msg, NoTicket)
          /\ session' = [session EXCEPT ![s] =
                IF r.ok THEN [Entered(@) EXCEPT !.page = "login"] ELSE Entered(@)]
    /\ UNCHANGED <<flights, reservations, res_seq, pc, call, conn_tx, today, request, offers>>

\* lines 1858-1869: Book Flight, My Bookings, My Profile of the sidebar
Sidebar(s, page) ==
    /\ pc[s] = "idle"
    /\ session[s].logged_in
    /\ session' = [session EXCEPT ![s] =
            [Entered(@) EXCEPT !.page = page,
                               !.selected_flight = IF page = "booking" THEN NoFlight ELSE @]]
    /\ UNCHANGED <<flights, reservations, res_seq, result, pc, call, conn_tx, today, request,
                   offers, users>>

\* the button leaving the user's name and id in the session
LogoutKeepUser(s) ==
    /\ pc[s] = "idle"
    /\ session[s].logged_in
    /\ session' = [session EXCEPT ![s] =
            [@ EXCEPT !.logged_in = FALSE, !.page = "login", !.selected_flight = NoFlight]]
    /\ UNCHANGED <<flights, reservations, res_seq, result, pc, call, conn_tx, today, request,
                   offers, users>>

\* lines 1871-1877: Logout
Logout(s) ==
    /\ pc[s] = "idle"
    /\ session[s].logged_in
    /\ session' = [session EXCEPT ![s] =
            [@ EXCEPT !.logged_in = FALSE,
                      !.current_user = PyNone,
                      !.current_user_id = PyNone,
                      !.page = "login",
                      !.selected_flight = NoFlight]]
    /\ UNCHANGED <<flights, reservations, res_seq, result, pc, call, conn_tx, today, request,
                   offers, users>>

\* the button searching whatever the two airports are
SearchFlightsAny(s, origin, destination, departure_date, flight_class, rnd) ==
    /\ pc[s] = "idle"
    /\ main(session[s]) = "booking"
    /\ SearchCall(origin, destination, departure_date, flight_class, rnd)
    /\ session' = [session EXCEPT ![s] =
            [Entered(@) EXCEPT !.flights = LedgerSearch(origin, destination,
                                   departure_date, flight_class, rnd, today)]]
    /\ UNCHANGED <<reservations, res_seq, pc, call, conn_tx, today, request, offers, users>>

\* lines 1134-1140: Search Flights
SearchFlights(s, origin, destination, departure_date, flight_class, rnd) ==
    /\ pc[s] = "idle"
    /\ main(session[s]) = "booking"
    /\ IF origin = destination
       THEN /\ result' = Result("booking_page", FALSE,
                                "Origin and destination cannot be the same.", NoTicket)
            /\ session' = [session EXCEPT ![s] = Entered(@)]
            /\ UNCHANGED flights
       ELSE /\ SearchCall(origin, destination, departure_date, flight_class, rnd)
            /\ session' = [session EXCEPT ![s] =
                    [Entered(@) EXCEPT !.flights = LedgerSearch(origin, destination,
                                           departure_date, flight_class, rnd, today)]]
    /\ UNCHANGED <<reservations, res_seq, pc, call, conn_tx, today, request, offers, users>>

\* lines 1183-1186: Select Flight on the k-th flight of the session's list
SelectFlight(s, k) ==
    /\ pc[s] = "idle"
    /\ main(session[s]) = "booking"
    /\ k \in 1..Len(session[s].flights)
    /\ session' = [session EXCEPT ![s] =
            [Entered(@) EXCEPT !.selected_flight = session[s].flights[k],
                               !.page = "flight_booking_form"]]
    /\ UNCHANGED <<flights, reservations, res_seq, result, pc, call, conn_tx, today, request,
                   offers, users>>

\* lines 1957-1988: Confirm Booking; book_ticket gets the selected flight's id and
\* the session's current_user_id, max_bookings bounds the ids handed out
ConfirmBooking(s, passenger_name, seat_number, max_bookings) ==
    /\ pc[s] = "idle"
    /\ main(session[s]) = "flight_booking_form"
    /\ session[s].selected_flight # NoFlight
    /\ LET flight  == session[s].selected_flight
           user_id == session[s].current_user_id
       IN IF passenger_name = "" \/ seat_number = ""
          THEN /\ result' = Result("flight_booking_form_page", FALSE,
                                   "Passenger name and seat number are required", NoTicket)
               /\ UNCHANGED <<reservations, res_seq, session>>
          ELSE IF BookFieldsMissing(passenger_name, flight.id, seat_number, user_id)
          THEN /\ result' = Result("book_ticket", FALSE, "All fields are required", NoTicket)
               /\ UNCHANGED <<reservations, res_seq, session>>
          ELSE IF ~ParseUserId(user_id).ok
          THEN /\ result' = Result("book_ticket", FALSE, "Invalid user ID format", NoTicket)
               /\ UNCHANGED <<reservations, res_seq, session>>
          ELSE \E draw \in SessionTicketDraws :
               /\ res_seq < max_bookings
               /\ reservations' = InsertReservation(reservations, res_seq,
                       BookRow(passenger_name, flight.id, seat_number,
                               ParseUserId(user_id).value, "None", TicketId(draw),
                               flight, strftime_date(today)))
               /\ res_seq' = res_seq + 1
               /\ result' = Result("book_ticket", TRUE,
                                   "Ticket booked successfully! Your ticket ID is",
                                   TicketId(draw))
               /\ session' = [session EXCEPT ![s] =
                       [@ EXCEPT !.selected_flight = NoFlight, !.page = "my_bookings"]]
    /\ UNCHANGED <<flights, pc, call, conn_tx, today, request, offers, users>>

\* lines 1990-1993: Cancel on the booking form
CancelForm(s) ==
    /\ pc[s] = "idle"
    /\ main(session[s]) = "flight_booking_form"
    /\ session' = [session EXCEPT ![s] =
            [Entered(@) EXCEPT !.selected_flight = NoFlight, !.page = "booking"]]
    /\ UNCHANGED <<flights, reservations, res_seq, result, pc, call, conn_tx, today, request,
                   offers, users>>

\* the page listing every reservation's id
ListedBookingsAll(s) == DOMAIN reservations

\* line 1396: the ids of the bookings my_bookings_page lists, each with its buttons
ListedBookings(s) ==
    LET bookings == get_user_bookings(reservations, session[s].current_user_id)
    IN {bookings[k].id : k \in 1..Len(bookings)}

\* the button cancelling at once
CancelTicketNow(s, booking_id) ==
    /\ pc[s] = "idle"
    /\ main(session[s]) = "my_bookings"
    /\ booking_id \in ListedBookings(s)
    /\ booking_id \notin session[s].cancel_state
    /\ CancelBookingCall(booking_id)
    /\ UNCHANGED <<flights, res_seq, pc, call, conn_tx, today, request, offers, users, session>>

\* lines 1497-1500: Cancel Ticket, shown while the booking's flag is False
CancelTicket(s, booking_id) ==
    /\ pc[s] = "idle"
    /\ main(session[s]) = "my_bookings"
    /\ booking_id \in ListedBookings(s)
    /\ booking_id \notin session[s].cancel_state
    /\ session' = [session EXCEPT ![s].cancel_state = @ \cup {booking_id}]
    /\ UNCHANGED <<flights, reservations, res_seq, result, pc, call, conn_tx, today, request,
                   offers, users>>

\* lines 1396 and 1502-1506: the run of a Yes, Cancel click lists the bookings and
\* reaches the button of booking_id, shown while the booking's flag is True
YesCancelClick(s, booking_id) ==
    /\ pc[s] = "idle"
    /\ main(session[s]) = "my_bookings"
    /\ booking_id \in ListedBookings(s)
    /\ booking_id \in session[s].cancel_state
    /\ pc' = [pc EXCEPT ![s] = "yes_cancel"]
    /\ call' = [call EXCEPT ![s] = [Idle EXCEPT !.reservation_id = booking_id]]
    /\ UNCHANGED <<flights, reservations, res_seq, result, conn_tx, today, request, offers,
                   users, session>>

\* lines 1507-1515: cancel_booking and, when it succeeds, the flag set to False
YesCancel(s) ==
    /\ pc[s] = "yes_cancel"
    /\ ~WriteLocked
    /\ CancelBookingCall(call[s].reservation_id)
    /\ session' = [session EXCEPT ![s].cancel_state =
            IF call[s].reservation_id \in DOMAIN reservations
            THEN @ \ {call[s].reservation_id} ELSE @]
    /\ pc' = [pc EXCEPT ![s] = "idle"]
    /\ call' = [call EXCEPT ![s] = Idle]
    /\ UNCHANGED <<flights, res_seq, conn_tx, today, request, offers, users>>

\* lines 1517-1520: No, Keep
NoKeep(s, booking_id) ==
    /\ pc[s] = "idle"
    /\ main(session[s]) = "my_bookings"
    /\ booking_id \in ListedBookings(s)
    /\ booking_id \in session[s].cancel_state
    /\ session' = [session EXCEPT ![s].cancel_state = @ \ {booking_id}]
    /\ UNCHANGED <<flights, reservations, res_seq, result, pc, call, conn_tx, today, request,
                   offers, users>>

LoginNameInputs == {admin, user, neo}
LoginPasswordInputs == {admin123, secret}
\* the draws of the searches made from the booking page
PageDraws == {rnd \in LedgerDraws : rnd.n = NumFlightsMax /\ rnd.num[1] = "100"
                                      /\ rnd.seats[1] = SeatsMin}
SelectInputs == {1}

NextPages ==
    \/ \E s \in Sessions, u \in LoginNameInputs, p \in LoginPasswordInputs : Login(s, u, p)
    \/ \E s \in Sessions : SwitchPublicPage(s)
    \/ \E s \in Sessions : CreateAccount(s, neo, secret)
    \/ \E s \in Sessions, page \in MemberPages \ {"flight_booking_form"} : Sidebar(s, page)
    \/ \E s \in Sessions : Logout(s)
    \/ \E s \in Sessions, o \in AirportInputs, d \in AirportInputs, dt \in DateInputs,
          c \in ClassInputs, rnd \in PageDraws : SearchFlights(s, o, d, dt, c, rnd)
    \/ \E s \in Sessions, k \in SelectInputs : SelectFlight(s, k)
    \/ \E s \in Sessions, p \in SessionPassengerInputs, seat \in SessionSeatInputs :
          ConfirmBooking(s, p, seat, MaxPageBookings)
    \/ \E s \in Sessions : CancelForm(s)

SpecPages == Init /\ [][NextPages]_vars

----------------------------------------------------------------------------
(* The My Bookings page of two sessions, while book_ticket makes reservations for
   either user *)

BookingLogins == {<<admin, admin123>>, <<user, user123>>}

NextMyBookings ==
    \/ \E o \in OriginInputs, d \in DestinationInputs, dt \in DateInputs,
          c \in ClassInputs, rnd \in PageDraws : Search(o, d, dt, c, rnd)
    \/ \E p \in ConnPassengerInputs, f \in ConnFlightIdInputs, seat \in ConnSeatInputs,
          u \in ClockUserIdInputs, x \in ExtrasInputs, draw \in SessionTicketDraws :
          /\ ~WriteLocked
          /\ Book(p, f, seat, u, x)
          /\ result'.ok => result'.ticket_id = TicketId(draw)
    \/ \E s \in Sessions, l \in BookingLogins : Login(s, l[1], l[2])
    \/ \E s \in Sessions : Sidebar(s, "my_bookings")
    \/ \E s \in Sessions : Logout(s)
    \/ \E s \in Sessions, b \in ReservationIdInputs : CancelTicket(s, b)
    \/ \E s \in Sessions, b \in ReservationIdInputs : YesCancelClick(s, b)
    \/ \E s \in Sessions : YesCancel(s)
    \/ \E s \in Sessions, b \in ReservationIdInputs : NoKeep(s, b)

SpecMyBookings == Init /\ [][NextMyBookings]_vars

----------------------------------------------------------------------------
(* Properties *)

\* the Confirmed reservations of table tbl that reference flight f
ConfirmedOn(tbl, f) ==
    {id \in DOMAIN tbl : tbl[id].flight_id = f /\ tbl[id].status = "Confirmed"}

\* a step in which book_ticket returns success
BookSucceeds == result'.op = "book_ticket" /\ result'.ok /\ vars' # vars

\* C1: every flight's seats_available is the seat count it was ingested with minus
\* the number of Confirmed reservations on it: a row enters inventory with no
\* Confirmed reservation on it, and afterwards every step keeps
\* seats_available + (number of Confirmed reservations) of the flight unchanged
C1_SeatsTrackConfirmed ==
    [][\A f \in DOMAIN flights' :
          IF f \in DOMAIN flights
          THEN flights'[f].seats_available + Cardinality(ConfirmedOn(reservations', f))
                 = flights[f].seats_available + Cardinality(ConfirmedOn(reservations, f))
          ELSE ConfirmedOn(reservations', f) = {}]_vars

\* C2: in every reachable state every flight row's seats_available is an
\* integer >= 0
C2_SeatsNonNegative ==
    \A f \in DOMAIN flights : flights[f].seats_available \in Nat

\* C2 witness: a flight of inventory that has been booked and cancelled both ways:
\* one of its reservations is marked Cancelled, another one was deleted
C2_Witness ==
    \E id \in DOMAIN reservations :
        /\ reservations[id].status = "Cancelled"
        /\ reservations[id].flight_id \in DOMAIN flights
        /\ Cardinality(DOMAIN reservations) < res_seq

\* C3: book on a flight with no seat left returns failure and creates no
\* reservation row. seatsAvailable is read as C1 defines it, the ingested seat count
\* minus the Confirmed reservations on the flight (the stored column is never
\* lowered, so it never reads 0; under SpecSessions it stays the ingested count):
\* a book that returns success found fewer Confirmed reservations on its flight
\* than the flight has seats
C3_BookFailsWhenFull ==
    [][BookSucceeds =>
          \A id \in DOMAIN reservations' \ DOMAIN reservations :
              reservations'[id].flight_id \in DOMAIN flights =>
                  Cardinality(ConfirmedOn(reservations, reservations'[id].flight_id))
                      < flights[reservations'[id].flight_id].seats_available]_vars

\* C4: a successful book creates exactly one reservation row, takes exactly one
\* seat from the referenced flight, and changes no other row and no other flight
C4_BookTakesOneSeat ==
    [][BookSucceeds =>
          /\ DOMAIN reservations \subseteq DOMAIN reservations'
          /\ Cardinality(DOMAIN reservations' \ DOMAIN reservations) = 1
          /\ \A id \in DOMAIN reservations : reservations'[id] = reservations[id]
          /\ DOMAIN flights' = DOMAIN flights
          /\ \A id \in DOMAIN reservations' \ DOMAIN reservations :
             \A f \in DOMAIN flights :
                flights'[f] =
                    IF f = reservations'[id].flight_id
                    THEN [flights[f] EXCEPT !.seats_available = @ - 1]
                    ELSE flights[f]]_vars

\* C5: no two Confirmed reservations on the same flight hold the same seat number
C5_NoSharedSeat ==
    \A a, b \in DOMAIN reservations :
        ( /\ a # b
          /\ reservations[a].status = "Confirmed"
          /\ reservations[b].status = "Confirmed"
          /\ reservations[a].flight_id = reservations[b].flight_id )
        => reservations[a].seat_number # reservations[b].seat_number

\* C6: however the steps of two sessions' bookings interleave, a flight never holds
\* more Confirmed reservations than the seats it has (under SpecSessions nothing
\* changes seats_available, so it is the ingested seat count)
C6_NoOverbooking ==
    \A f \in DOMAIN flights :
        Cardinality(ConfirmedOn(reservations, f)) <= flights[f].seats_available

\* C7: no two reservation rows carry the same ticket id
C7_TicketIdsUnique ==
    \A a, b \in DOMAIN reservations :
        a # b => reservations[a].ticket_id # reservations[b].ticket_id

\* the rows of list after that are not in list before
NewRows(before, after) ==
    {k \in 1..Len(after) : \A j \in 1..Len(before) : before[j] # after[k]}

\* C8: after a successful book(passenger, flight, seat, user, extras), listByUser(user)
\* holds exactly one reservation it did not hold before the call, and that one is
\* Confirmed with the given passenger, flight id and seat and the returned ticket id
C8_BookThenList ==
    [][BookSucceeds =>
          \A p \in PassengerInputs, f \in FlightIdInputs, s \in SeatInputs,
             u \in UserIdInputs, x \in ExtrasInputs :
             Book(p, f, s, u, x) =>
                 LET before == get_user_bookings(reservations, u)
                     after  == get_user_bookings(reservations', u)
                 IN /\ result'.ok
                    /\ Cardinality(NewRows(before, after)) = 1
                    /\ \A k \in NewRows(before, after) :
                          /\ after[k].status = "Confirmed"
                          /\ after[k].passenger_name = p
                          /\ after[k].flight_id = f
                          /\ after[k].seat_number = s
                          /\ after[k].ticket_id = result'.ticket_id
                          /\ after[k].ticket_id # NoTicket
                    /\ \A j \in 1..Len(before) :
                          \E k \in 1..Len(after) : after[k] = before[j]]_vars

\* C8 witness: a booking has just succeeded for a user who already had a
\* reservation listed, while another reservation's ticket id differs
C8_Witness ==
    /\ result.op = "book_ticket"
    /\ result.ok
    /\ res_seq \in DOMAIN reservations
    /\ reservations[res_seq].ticket_id = result.ticket_id
    /\ \E id \in DOMAIN reservations :
          /\ id # res_seq
          /\ reservations[id].user_id = reservations[res_seq].user_id
          /\ reservations[id].ticket_id # result.ticket_id

\* the user ids among the inputs that are present and parse as integers
IntegerUserIds == {PyInt(1), PyStr(<<"2">>)}

\* C9: book with an empty passenger name, flight id or seat number, or with a user
\* id that is missing or does not parse as an integer, returns a failure with a
\* message and changes neither the reservations nor the flights table: a book
\* that returns success had none of these inputs, and a book that returns failure
\* carries a message and leaves both tables as they were
C9_BookRejectsBadInput ==
    [][result'.op = "book_ticket" =>
          IF result'.ok
          THEN \A p \in PassengerInputs, f \in FlightIdInputs, s \in SeatInputs,
                  u \in UserIdInputs, x \in ExtrasInputs :
                  (p = "" \/ f = "" \/ s = "" \/ u \notin IntegerUserIds)
                      => ~Book(p, f, s, u, x)
          ELSE /\ result'.msg # ""
               /\ reservations' = reservations
               /\ res_seq' = res_seq
               /\ flights' = flights]_vars

\* C9 witness: book has just failed on its input while both tables hold rows
C9_Witness ==
    /\ result.op = "book_ticket"
    /\ ~result.ok
    /\ result.msg = "Invalid user ID format"
    /\ DOMAIN reservations # {}
    /\ DOMAIN flights # {}

\* C10: cancelling an existing Confirmed reservation, by either cancel operation,
\* gives exactly one seat back to the referenced flight and leaves the reservation
\* Cancelled or removed; no other reservation and no other flight changes
C10_CancelRestoresSeat ==
    [][\A r \in ReservationIdInputs :
          ( /\ CancelReservation(r) \/ CancelBooking(r)
            /\ r \in DOMAIN reservations
            /\ reservations[r].status = "Confirmed"
            /\ reservations[r].flight_id \in DOMAIN flights ) =>
              /\ r \in DOMAIN reservations' => reservations'[r].status = "Cancelled"
              /\ \A id \in DOMAIN reservations \ {r} :
                    id \in DOMAIN reservations' /\ reservations'[id] = reservations[id]
              /\ DOMAIN flights' = DOMAIN flights
              /\ \A f \in DOMAIN flights :
                    flights'[f] =
                        IF f = reservations[r].flight_id
                        THEN [flights[f] EXCEPT !.seats_available = @ + 1]
                        ELSE flights[f]]_vars

\* C11: cancelling a reservation id that was cancelled before (its row is marked
\* Cancelled, or is gone) changes no flight row and no reservation row, whichever
\* cancel operation is used
C11_SecondCancelNoOp ==
    [][\A r \in ReservationIdInputs :
          ( /\ CancelReservation(r) \/ CancelBooking(r)
            /\ r <= res_seq
            /\ r \in DOMAIN reservations => reservations[r].status = "Cancelled" )
          => flights' = flights /\ reservations' = reservations]_vars

\* C12: a cancel, by either operation, of an id that matches no reservation row
\* returns failure and leaves the reservations and the flights table as they were
C12_CancelUnknownId ==
    [][result'.op \in {"cancel_reservation", "cancel_booking"} =>
          \A r \in ReservationIdInputs :
             ( /\ r \notin DOMAIN reservations
               /\ CancelReservation(r) \/ CancelBooking(r) )
             => /\ ~result'.ok
                /\ reservations' = reservations
                /\ res_seq' = res_seq
                /\ flights' = flights]_vars

\* C12 witness: cancel_booking has just reported an unknown id while both tables
\* hold rows
C12_Witness ==
    /\ result.op = "cancel_booking"
    /\ ~result.ok
    /\ result.msg = "Booking not found."
    /\ DOMAIN reservations # {}
    /\ DOMAIN flights # {}

\* the statements of transaction tx that cancel_reservation(r) executed on table stmt
StatementsOf(tx, r, stmt) ==
    {k \in 1..Len(tx) : tx[k].reservation_id = r /\ tx[k].stmt = stmt}

C14_IngestByFlightNumber ==
    [][result'.op = "search_flights" =>
          \A o \in OriginInputs, d \in DestinationInputs, dt \in DateInputs,
             c \in ClassInputs, rnd \in LedgerDraws :
             Search(o, d, dt, c, rnd) =>
                 LET batch == LedgerSearch(o, d, dt, c, rnd, today)
                 IN \A k \in 1..Len(batch) :
                       IF FlightNumberExists(flights, batch[k].flight_number)
                       THEN /\ \A id \in DOMAIN flights' \ DOMAIN flights :
                                  flights'[id].flight_number # batch[k].flight_number
                            /\ \A id \in DOMAIN flights :
                                  flights[id].flight_number = batch[k].flight_number
                                      => id \in DOMAIN flights' /\ flights'[id] = flights[id]
                       ELSE /\ batch[k].id \in DOMAIN flights'
                            /\ flights'[batch[k].id] = FlightRow(batch[k])]_vars

\* C15: ingesting a batch a second time leaves the flights table exactly as the
\* first ingest of that batch left it, whatever the table held before
C15_IngestIdempotent ==
    \A o \in OriginInputs, d \in DestinationInputs, dt \in DateInputs,
       c \in ClassInputs, rnd \in LedgerDraws :
       LET batch == LedgerSearch(o, d, dt, c, rnd, today)
           once  == store_mock_flights(flights, batch)
       IN store_mock_flights(once, batch) = once

\* C15 witness: a search has stored a batch, and every offer of it is a row of the
\* table: the next ingest of that batch is its second
C15_Witness ==
    /\ result.op = "search_flights"
    /\ \E o \in OriginInputs, d \in DestinationInputs, dt \in DateInputs,
          c \in ClassInputs, rnd \in LedgerDraws :
          LET batch == LedgerSearch(o, d, dt, c, rnd, today)
          IN /\ Len(batch) = NumFlightsMax
             /\ \A k \in 1..Len(batch) :
                   /\ batch[k].id \in DOMAIN flights
                   /\ flights[batch[k].id] = FlightRow(batch[k])

\* C16: a batch with an insert that fails (an offer whose flight number is new and
\* whose id is taken) leaves the flights table as it was before the call
C16_IngestAllOrNothing ==
    [][result'.op = "search_flights" =>
          \A o \in OriginInputs, d \in DestinationInputs, dt \in DateInputs,
             c \in ClassInputs, rnd \in LedgerDraws :
             LET batch == LedgerSearch(o, d, dt, c, rnd, today)
             IN ( /\ \E k \in 1..Len(batch) :
                        /\ batch[k].id \in DOMAIN flights
                        /\ \A id \in DOMAIN flights :
                              flights[id].flight_number # batch[k].flight_number
                  /\ flights' # flights )
                => ~Search(o, d, dt, c, rnd)]_vars

\* C16 witness: a search has just had its batch rolled back, with rows in the table
C16_Witness ==
    /\ result.op = "search_flights"
    /\ result.msg = "Error storing mock flights"
    /\ DOMAIN flights # {}

\* C17: no step deletes a flight row or changes a field of one other than
\* seats_available, and a search changes no field at all of a row already stored
C17_InventoryOnlyGrows ==
    [][/\ \A f \in DOMAIN flights :
             /\ f \in DOMAIN flights'
             /\ [flights'[f] EXCEPT !.seats_available = flights[f].seats_available]
                    = flights[f]
       /\ result'.op = "search_flights" =>
             \A f \in DOMAIN flights : flights'[f] = flights[f]]_vars

\* C17 witness: a search whose offers were skipped on their flight numbers has just
\* returned, over a row whose seat count a cancel had raised
C17_Witness ==
    /\ result.op = "search_flights"
    /\ result.msg = ""
    /\ \E f \in DOMAIN flights : flights[f].seats_available > SeatsMin + 1

C19_MostRecentFirst ==
    \A u \in ClockUserIdInputs :
        LET l == get_user_bookings(reservations, u)
        IN \A j, k \in 1..Len(l) :
              j < k => /\ ~StrLess(l[j].booking_date, l[k].booking_date)
                       /\ l[j].id > l[k].id

\* the minutes a timestamp "YYYY-MM-DD", "HH:MM" counts, on a scale that grows
\* with the calendar
Timestamp(date, time) ==
    LET day == strptime_date(date).date
    IN ((day.year * 12 + day.month) * 31 + day.day) * 1440
           + CodesValue(SubSeq(time, 1, 2)) * 60 + CodesValue(SubSeq(time, 4, 5))

FlightClasses == {"Economy", "Business", "First"}

\* C20: for a request naming two different airports, a date and a class, the list
\* returned has 5 or 6 offers, each with the request's origin, destination and
\* class and with an arrival timestamp later than its departure timestamp
C20_SearchResultShape ==
    ( /\ offers # <<>>
      /\ request.origin # request.destination
      /\ strptime_date(request.departure_date).ok
      /\ request.flight_class \in FlightClasses )
    => /\ Len(offers) \in NumFlightsMin..NumFlightsMax
       /\ \A k \in 1..Len(offers) :
             /\ offers[k].origin = request.origin
             /\ offers[k].destination = request.destination
             /\ offers[k].class = request.flight_class
             /\ strptime_date(offers[k].arrival_date).ok
             /\ Timestamp(offers[k].departure_date, offers[k].departure_time)
                    < Timestamp(offers[k].arrival_date, offers[k].arrival_time)

\* C20 witness: six offers for a request on the last day of a year, one of them
\* landing on the first day of the next year
C20_Witness ==
    /\ Len(offers) = NumFlightsMax
    /\ request.origin # request.destination
    /\ request.flight_class = "First"
    /\ request.departure_date = strftime_date(Date(2024, 12, 31))
    /\ \E k \in 1..Len(offers) : offers[k].arrival_date = strftime_date(Date(2025, 1, 1))

\* the minute of the day a time "HH:MM" names
MinuteOfDay(time) ==
    CodesValue(SubSeq(time, 1, 2)) * 60 + CodesValue(SubSeq(time, 4, 5))

\* C21: the offers one call returns are in non-decreasing order of departure time,
\* for every combination of the minute draws and for both batch sizes
C21_SortedByDeparture ==
    \A j, k \in 1..Len(offers) :
        j < k => MinuteOfDay(offers[j].departure_time)
                    <= MinuteOfDay(offers[k].departure_time)

\* C21 witness: six offers whose minute draws differ, the first flight leaving at
\* 07:45 and the second at 09:00
C21_Witness ==
    /\ Len(offers) = NumFlightsMax
    /\ offers[1].departure_time = departure_time(7, 45)
    /\ offers[2].departure_time = departure_time(9, 0)
    /\ offers[NumFlightsMax].departure_time = departure_time(20, 30)

\* the factor of a class on the base fare, in hundredths of the currency unit
ClassFactor(flight_class) ==
    IF flight_class = "Business" THEN 250
    ELSE IF flight_class = "First" THEN 400 ELSE 100

\* C22: for every base fare b of the generator's range the price is b for Economy,
\* 2.5 b for Business and 4 b for First, so First is 4 times and Business 2.5 times
\* the Economy price of the same draw; every offer's price is such a price of its
\* class, and none is negative
C22_PriceByClass ==
    /\ \A b \in BasePriceMin..BasePriceMax :
          /\ price(b, "Economy") = 100 * b
          /\ 2 * price(b, "Business") = 5 * price(b, "Economy")
          /\ price(b, "First") = 4 * price(b, "Economy")
    /\ \A k \in 1..Len(offers) :
          /\ offers[k].price >= 0
          /\ \E b \in BasePriceMin..BasePriceMax :
                offers[k].price = ClassFactor(offers[k].class) * b

\* C22 witness: Business offers at 2.5 times the largest base fare
C22_Witness ==
    /\ offers # <<>>
    /\ request.flight_class = "Business"
    /\ \A k \in 1..Len(offers) : offers[k].price = 250 * BasePriceMax

\* the minutes a duration "<h>h <m>m" counts
DurationMinutes(d) ==
    LET h == CHOOSE k \in 1..Len(d) : d[k] = 104
    IN CodesValue(SubSeq(d, 1, h - 1)) * 60 + CodesValue(SubSeq(d, h + 2, Len(d) - 1))

\* C23: every offer has a duration above zero, and its arrival date and time are
\* its departure date and time plus the duration (the next day when the sum passes
\* midnight), also when the requested date does not parse and the current date is
\* used: the offer's departure date is then a date too, and the sum starts from it
C23_ArrivalIsDeparturePlusDuration ==
    \A k \in 1..Len(offers) :
        LET dep   == strptime_date(offers[k].departure_date)
            total == MinuteOfDay(offers[k].departure_time)
                        + DurationMinutes(offers[k].duration)
        IN /\ DurationMinutes(offers[k].duration) > 0
           /\ dep.ok
           /\ offers[k].arrival_date = strftime_date(AddDays(dep.date, total \div 1440))
           /\ offers[k].arrival_time = strftime_time(total % 1440)

\* C26: after any sequence of searches the flights table holds at most 6 rows, every
\* row's id is one of MOCK-1..MOCK-6 (the id is the table's key, so no two rows
\* share one), and no two rows share a flight number
C26_InventoryAtMostSix ==
    /\ Cardinality(DOMAIN flights) <= NumFlightsMax
    /\ DOMAIN flights \subseteq {MockIds[i] : i \in 1..NumFlightsMax}
    /\ \A a, b \in DOMAIN flights :
          a # b => flights[a].flight_number # flights[b].flight_number

\* C26 witness: six rows are stored and a search whose batch brought a flight
\* number not yet stored has just returned
C26_Witness ==
    /\ Cardinality(DOMAIN flights) = NumFlightsMax
    /\ result.op = "search_flights"
    /\ result.msg = "Error storing mock flights"

\* C24: every flight row stored through the booking page, and every flight the page
\* holds in its list, has an origin that differs from its destination; a search
\* with equal airports is answered with an error and changes neither
C24_OriginDiffersFromDestination ==
    [][/\ \A f \in DOMAIN flights' : flights'[f].origin # flights'[f].destination
       /\ \A s \in Sessions : \A k \in 1..Len(session'[s].flights) :
             session'[s].flights[k].origin # session'[s].flights[k].destination
       /\ \A s \in Sessions, o \in AirportInputs, dt \in DateInputs, c \in ClassInputs,
             rnd \in PageDraws :
             SearchFlights(s, o, o, dt, c, rnd) =>
                 /\ ~result'.ok
                 /\ flights' = flights
                 /\ session'[s].flights = session[s].flights]_vars

\* C24 witness: the page has just refused a search from an airport to itself, after
\* a search from BOM to DEL was stored
C24_Witness ==
    /\ result.op = "booking_page"
    /\ result.msg = "Origin and destination cannot be the same."
    /\ \E f \in DOMAIN flights : flights[f].origin = "BOM" /\ flights[f].destination = "DEL"

\* C25: every booking the My Bookings page of a session lists belongs to the
\* session's current_user_id, every Yes, Cancel it handles targets such a booking,
\* and every reservation that is removed is removed by a session that owns it
C25_CancelOwnBookingsOnly ==
    [][/\ \A s \in Sessions :
             (session[s].logged_in /\ main(session[s]) = "my_bookings") =>
                 \A b \in ListedBookings(s) :
                     PyInt(reservations[b].user_id) = session[s].current_user_id
       /\ \A s \in Sessions, b \in ReservationIdInputs :
             (pc'[s] # pc[s] /\ YesCancelClick(s, b)) =>
                 PyInt(reservations[b].user_id) = session[s].current_user_id
       /\ \A b \in DOMAIN reservations \ DOMAIN reservations' :
             \E s \in Sessions :
                 /\ pc[s] = "yes_cancel"
                 /\ call[s].reservation_id = b
                 /\ session[s].logged_in
                 /\ PyInt(reservations[b].user_id) = session[s].current_user_id]_vars

\* C25 witness: a session has just cancelled a booking of its user while the other
\* session is logged in as the other user, whose booking is still stored
C25_Witness ==
    /\ result.op = "cancel_booking"
    /\ result.ok
    /\ session["s1"].logged_in
    /\ session["s2"].logged_in
    /\ session["s1"].current_user_id # session["s2"].current_user_id
    /\ DOMAIN reservations # {}
    /\ Cardinality(DOMAIN reservations) < res_seq

\* C27: cancel_booking runs only in the run of a Yes, Cancel click on a booking
\* whose flag was True before the run; a flag becomes True only by Cancel Ticket;
\* No, Keep sets the flag to False and leaves the reservations as they are; after
\* a cancellation that succeeded the flag is False
C27_CancelInTwoSteps ==
    [][/\ (result'.op = "cancel_booking" /\ (result' # result \/ reservations' # reservations))
             => \E s \in Sessions :
                   /\ pc[s] = "yes_cancel"
                   /\ pc'[s] = "idle"
                   /\ call[s].reservation_id \in session[s].cancel_state
                   /\ result'.ok => call[s].reservation_id \notin session'[s].cancel_state
       /\ \A b \in DOMAIN reservations \ DOMAIN reservations' :
             \E s \in Sessions :
                 /\ pc[s] = "yes_cancel"
                 /\ call[s].reservation_id = b
                 /\ b \in session[s].cancel_state
                 /\ b \notin session'[s].cancel_state
       /\ \A s \in Sessions, b \in ReservationIdInputs :
             /\ (pc'[s] # pc[s] /\ YesCancelClick(s, b)) => b \in session[s].cancel_state
             /\ (b \in session'[s].cancel_state /\ b \notin session[s].cancel_state)
                    => CancelTicket(s, b)
             /\ (session'[s] # session[s] /\ NoKeep(s, b)) =>
                    /\ b \notin session'[s].cancel_state
                    /\ reservations' = reservations]_vars

\* C27 witness: a cancellation has just succeeded and left no flag of its session
\* True, while the other session has the flag of a stored booking True
C27_Witness ==
    /\ result.op = "cancel_booking"
    /\ result.ok
    /\ \E s, t \in Sessions :
          /\ session[s].cancel_state = {}
          /\ session[t].cancel_state \cap DOMAIN reservations # {}

\* every value st.session_state.page takes, and one it never takes
PageValues == PublicPages \cup MemberPages \cup {"admin"}

\* C28: for a session that is not logged in main() renders the login or the
\* registration page whatever the page value is, and sets any other page value to
\* 'login'; Logout clears logged_in, current_user, current_user_id and
\* selected_flight; and a session becomes logged in only by an authenticate that
\* succeeds, so no member page is rendered between a Logout and the next login
C28_PublicPagesOnly ==
    [][/\ \A page \in PageValues :
             /\ main([NewSession EXCEPT !.page = page]) \in PublicPages
             /\ Entered([NewSession EXCEPT !.page = page]).page \in PublicPages
             /\ page \notin PublicPages =>
                    /\ main([NewSession EXCEPT !.page = page]) = "login"
                    /\ Entered([NewSession EXCEPT !.page = page]).page = "login"
       /\ \A s \in Sessions :
             /\ ~session[s].logged_in => main(session[s]) \in PublicPages
             /\ ~session'[s].logged_in => main(session'[s]) \in PublicPages
             /\ Logout(s) =>
                    /\ ~session'[s].logged_in
                    /\ session'[s].current_user = PyNone
                    /\ session'[s].current_user_id = PyNone
                    /\ session'[s].selected_flight = NoFlight
                    /\ main(session'[s]) = "login"
             /\ (~session[s].logged_in /\ session'[s].logged_in) =>
                    (result'.op = "authenticate" /\ result'.ok)]_vars

\* C28 witness: a session that searched while logged in is logged out and is shown
\* the login page, the other session being on a member page
C28_Witness ==
    \E s, t \in Sessions :
        /\ ~session[s].logged_in
        /\ session[s].flights # <<>>
        /\ main(session[s]) = "login"
        /\ session[t].logged_in
        /\ main(session[t]) = "profile"

\* C29: the current_user_id of a logged-in session is the id of a users row whose
\* username is the session's current_user; the session became logged in by a Login
\* with that row's password; and every reservation the booking form creates has
\* the current_user_id of the session that confirmed the booking
C29_SessionUserIsAuthenticated ==
    [][/\ \A s \in Sessions :
             /\ session'[s].logged_in =>
                    \E id \in DOMAIN users' :
                        /\ session'[s].current_user_id = PyInt(id)
                        /\ session'[s].current_user = PyStr(users'[id].username)
             /\ (~session[s].logged_in /\ session'[s].logged_in) =>
                    \E id \in DOMAIN users, p \in LoginPasswordInputs :
                        /\ Login(s, users[id].username, p)
                        /\ users[id].password = p
                        /\ session'[s].current_user_id = PyInt(id)
       /\ \A b \in DOMAIN reservations' \ DOMAIN reservations :
             \E s \in Sessions :
                 /\ session[s].logged_in
                 /\ main(session[s]) = "flight_booking_form"
                 /\ main(session'[s]) = "my_bookings"
                 /\ PyInt(reservations'[b].user_id) = session[s].current_user_id]_vars

\* C29 witness: a user registered through the registration page has logged in and
\* booked, and the reservation carries the new users row's id
C29_Witness ==
    \E s \in Sessions, b \in DOMAIN reservations :
        /\ session[s].logged_in
        /\ session[s].current_user = PyStr(neo)
        /\ session[s].current_user_id = PyInt(Len(SampleUsers) + 1)
        /\ reservations[b].user_id = Len(SampleUsers) + 1
        /\ result.op = "book_ticket"

\* C30: no two users rows share a username, however the statements of the
\* register_user calls of the sessions interleave; a call that returns failure adds
\* no row, and a call with a username that is taken, a username shorter than 3 or a
\* password shorter than 6 characters returns failure
C30_UsernamesUnique ==
    [][/\ \A a, b \in DOMAIN users' : a # b => users'[a].username # users'[b].username
       /\ users' # users =>
             /\ result'.op = "register_user" /\ result'.ok
             /\ Len(users') = Len(users) + 1
             /\ SubSeq(users', 1, Len(users)) = users
             /\ UserIds(users, users'[Len(users')].username) = {}
             /\ Len(users'[Len(users')].username) >= 3
             /\ Len(users'[Len(users')].password) >= 6
       /\ (result'.op = "register_user" /\ ~result'.ok) => users' = users
       /\ \A s \in Sessions, u \in RegisterNameInputs, p \in RegisterPasswordInputs :
             ( /\ UserIds(users, u) # {} \/ Len(u) < 3 \/ Len(p) < 6
               /\ RegisterBegin(s, u, p) )
             => (result'.op = "register_user" /\ ~result'.ok /\ users' = users)]_vars

\* C30 witness: a call whose SELECT found the username free has just failed on the
\* UNIQUE constraint, the other session having registered the name in between
C30_Witness ==
    /\ result.op = "register_user"
    /\ ~result.ok
    /\ result.msg = "Error during registration: UNIQUE constraint failed"
    /\ UserIds(users, neo) # {}

====
